---- MODULE Spec2Model ----
(***************************************************************************)
(* Model of the streamer relay of IceStreamingService (src/src/Streamer.cpp)*)
(*                                                                         *)
(* One process (the thread that executes Streamer::run) is modelled by its *)
(* position pc; the SIGINT handler, the viewers, the upstream transcoder   *)
(* socket and the clock are the environment.                               *)
(*                                                                         *)
(* Bytes of the upstream stream are identified by their offset in the      *)
(* stream: the buffer of the chunk being assembled holds the bytes         *)
(* [chunksRead * BUFFER_SIZE, chunksRead * BUFFER_SIZE + filled) and a     *)
(* write of n bytes hands a viewer the first n bytes of the buffer.        *)
(***************************************************************************)
EXTENDS Integers, Sequences, FiniteSets, TLC

\* ------------------------------------------------------------------------
\* Program constants
\* ------------------------------------------------------------------------
BUFFER_SIZE == 256

tickTimer == 30

\* ------------------------------------------------------------------------
\* Bounds of the model
\* ------------------------------------------------------------------------
\* viewers that connect during one run
MaxClients == 2

\* chunks the upstream delivers during one run
MaxChunks == 2

\* sizes the upstream offers to one read (besides a full chunk)
BigRead == 255

MidRead == 128

\* bytes a short write transfers
ShortWrite == 100

\* milliseconds the clock advances in one step
MsPerTick == 10

\* longest command line tried (argc)
MaxArgc == 5

ReadSizes == {MidRead, BigRead, BUFFER_SIZE}

WriteResults == {-1, ShortWrite, BUFFER_SIZE}

\* ------------------------------------------------------------------------
\* State
\* ------------------------------------------------------------------------
VARIABLES
    pc,               \* position of the thread executing Streamer::run
    early_exit,       \* the global flag set by exitHandler
    portal,           \* _portal is non-null
    listenSocketFd,   \* _listenSocketFd
    ffmpegSocketFd,   \* _ffmpegSocketFd
    ffmpegPid,        \* _ffmpegPid
    clientList,       \* _clientList, a sequence of descriptors
    remaining,        \* Run: bytes of the current chunk still to read
    timeBeforeTick,   \* Run: clock value recorded at the cycle start
    exitCode,         \* run: the value returned
    openFds,          \* descriptors open in the process
    pending,          \* viewer connections waiting on the listen socket
    upstream,         \* what the next read of the upstream socket meets
    now,              \* the clock read by getMSTime, in ms
    transcoder,       \* the child process: "none", "running", "reaped"
    recv,             \* per descriptor: the pieces <<offset, length>> written
    accepted,         \* descriptors ever returned by accept4
    chunksRead,       \* chunks completely read from the upstream
    exitAt,           \* phase in which early_exit was first set
    ranLoop,          \* Run was entered
    startedLate,      \* a chunk read began after the tick budget was exceeded
    newStreamCalls,   \* calls of NewStream that returned
    closeStreamCalls, \* calls of CloseStream made
    termSignals,      \* SIGTERMs sent to the transcoder
    argc,             \* run: the number of command-line arguments
    childPc,          \* position of the process created by fork
    childExit,        \* the child's copy of early_exit
    childNewStream,   \* calls of NewStream made by the child
    childCloseStream, \* calls of CloseStream made by the child
    closeRuns,        \* executions of Close that ran to their end
    badCloses,        \* close() calls on a descriptor that is not open
    newStreamFailed,  \* the NewStream call failed
    initResult,       \* what Initialize returned: "none", "true", "false"
    joinedAt          \* per descriptor: chunksRead when it was accepted

vars == <<pc, early_exit, portal, listenSocketFd, ffmpegSocketFd, ffmpegPid,
          clientList, remaining, timeBeforeTick, exitCode, openFds, pending,
          upstream, now, transcoder, recv, accepted, chunksRead, exitAt,
          ranLoop, startedLate, newStreamCalls, closeStreamCalls, termSignals,
          argc, childPc, childExit, childNewStream, childCloseStream,
          closeRuns, badCloses, newStreamFailed, initResult, joinedAt>>

progVars == <<portal, listenSocketFd, ffmpegSocketFd, ffmpegPid, clientList,
              remaining, timeBeforeTick, exitCode>>

histVars == <<recv, accepted, chunksRead, ranLoop, startedLate,
              newStreamCalls, closeStreamCalls, termSignals>>

childVars == <<childPc, childExit, childNewStream, childCloseStream>>

closeVars == <<closeRuns, badCloses>>

auxVars == <<argc, childVars, closeVars, newStreamFailed, initResult, joinedAt>>

InitPcs == {"run_args", "init_portal", "init_listen", "init_fork", "init_socket"}

ConnectPcs == {"conn_check", "conn_connect", "conn_sleep"}

RunPcs == {"run_accept", "read_check", "read", "broadcast", "tick_check"}

InnerPcs == {"read_check", "read", "broadcast", "tick_check"}

ClosePcs == {"close_clients", "close_listen", "close_ffmpeg", "close_portal",
             "close_kill", "close_wait"}

UpstreamModes == {"streaming", "stalled", "eof", "error"}

\* positions of a child that goes on in Initialize after a failed execlp
ChildRelayPcs == {"socket", "conn_check", "conn_connect", "conn_sleep",
                  "newstream", "run", "close"}

\* ------------------------------------------------------------------------
\* Helpers
\* ------------------------------------------------------------------------
Range(s) == {s[i] : i \in 1..Len(s)}

Min(a, b) == IF a < b THEN a ELSE b

\* socket()/accept4() return the lowest descriptor that is not open;
\* 0, 1 and 2 are the standard streams
LowestFree(open) == CHOOSE fd \in 3..(3 + Cardinality(open)) :
                        /\ fd \notin open
                        /\ \A g \in 3..(fd - 1) : g \in open

Phase(p) == IF p \in InitPcs THEN "init"
            ELSE IF p \in ConnectPcs THEN p
            ELSE IF p \in RunPcs THEN "run"
            ELSE "close"

\* The state when main calls Streamer::run: early_exit is false and the
\* members hold no handle (descriptors and pid are 0, the list is empty).
Init ==
    /\ pc = "run_args"
    /\ argc \in 1..MaxArgc
    /\ childPc = "none"
    /\ childExit = FALSE
    /\ childNewStream = 0
    /\ childCloseStream = 0
    /\ closeRuns = 0
    /\ badCloses = 0
    /\ newStreamFailed = FALSE
    /\ initResult = "none"
    /\ joinedAt = <<>>
    /\ early_exit = FALSE
    /\ portal = FALSE
    /\ listenSocketFd = 0
    /\ ffmpegSocketFd = 0
    /\ ffmpegPid = 0
    /\ clientList = <<>>
    /\ remaining = BUFFER_SIZE
    /\ timeBeforeTick = 0
    /\ exitCode = 0
    /\ openFds = {}
    /\ pending = 0
    /\ upstream = "stalled"
    /\ now = 0
    /\ transcoder = "none"
    /\ recv = <<>>
    /\ accepted = {}
    /\ chunksRead = 0
    /\ exitAt = "none"
    /\ ranLoop = FALSE
    /\ startedLate = FALSE
    /\ newStreamCalls = 0
    /\ closeStreamCalls = 0
    /\ termSignals = 0


\* ------------------------------------------------------------------------
\* Conditions of the code
\* ------------------------------------------------------------------------
\* Close: "if (_listenSocketFd > 0)", Run: "if (clientSocket > 0)"
FdValid(fd) == fd > 0

\* faulty variant of ConnectCancelled: the connect loop never looks at the flag
ConnectCancelledNever(flag) == FALSE

\* Initialize: "if (early_exit) return false;" at the head of the connect loop
ConnectCancelled(flag) == flag

\* Run: "if (early_exit) return;" before every read
ReadCancelled(flag) == flag

\* faulty variant of ChunkIncomplete: one read is taken to fill the chunk
\* ("if" for "while")
ChunkIncompleteOnce(rem) == rem >= BUFFER_SIZE

\* Run: "while (remaining > 0)"
ChunkIncomplete(rem) == rem > 0

\* Run: "if (n < 0)" after read
ReadFailed(n) == n < 0

\* Run: "if (write(clientSocket, buffer, BUFFER_SIZE) < 0)"
WriteFailed(n) == n < 0

\* faulty variant of TickPassed: the operands of the difference are swapped
TickPassedSwapped(t, before) == before - t > tickTimer

\* Run: "if (now - timeBeforeTick > tickTimer) break;"
TickPassed(t, before) == t - before > tickTimer

\* what read(_ffmpegSocketFd, buffer + offset, rem) can return; the empty set
\* when the read blocks (the upstream socket is a blocking socket)
ReadOutcomes(rem) ==
    IF upstream = "streaming" /\ chunksRead < MaxChunks
        THEN {Min(s, rem) : s \in ReadSizes}
    ELSE IF upstream = "eof" THEN {0}
    ELSE IF upstream = "error" THEN {-1}
    ELSE {}

\* _clientList.remove_if(...): res[i] is what write returned for list[i]
RECURSIVE RemoveIf(_, _, _)
RemoveIf(list, res, i) ==
    IF i > Len(list) THEN <<>>
    ELSE IF WriteFailed(res[i]) THEN RemoveIf(list, res, i + 1)
    ELSE <<list[i]>> \o RemoveIf(list, res, i + 1)

\* faulty variant of Delivered: the pass hands out bytes of the chunk that
\* follows the one in the buffer
DeliveredNextChunk(list, res, old) ==
    [fd \in DOMAIN old |->
        IF \E i \in 1..Len(list) : list[i] = fd /\ res[i] > 0
            THEN LET i == CHOOSE j \in 1..Len(list) : list[j] = fd /\ res[j] > 0
                 IN  Append(old[fd],
                            [off |-> chunksRead * BUFFER_SIZE, len |-> res[i]])
            ELSE old[fd]]

\* the bytes a pass hands to the viewers: write(fd, buffer, BUFFER_SIZE)
\* transfers the first res[i] bytes of the buffer
Delivered(list, res, old) ==
    [fd \in DOMAIN old |->
        IF \E i \in 1..Len(list) : list[i] = fd /\ res[i] > 0
            THEN LET i == CHOOSE j \in 1..Len(list) : list[j] = fd /\ res[j] > 0
                 IN  Append(old[fd],
                            [off |-> (chunksRead - 1) * BUFFER_SIZE, len |-> res[i]])
            ELSE old[fd]]

\* ------------------------------------------------------------------------
\* Streamer::run / Streamer::Initialize
\* ------------------------------------------------------------------------
\* the option loop of run, "for (int i = 3; i < argc; ++i)": it returns 1 when
\* argv[i] has no following argument, "if (i + 1 >= argc)"; TRUE when it does
RECURSIVE OptionLoopFails(_, _)
OptionLoopFails(n, i) ==
    IF i >= n THEN FALSE
    ELSE IF i + 1 >= n THEN TRUE
    ELSE OptionLoopFails(n, i + 1)

\* run: "if (argc < 3) { PrintUsage(); return 1; }" and the option loop; both
\* return before Initialize and Close
ParseArgs ==
    /\ pc = "run_args"
    /\ IF argc < 3 \/ OptionLoopFails(argc, 3)
           THEN exitCode' = 1 /\ pc' = "exited"
           ELSE pc' = "init_portal" /\ UNCHANGED exitCode
    /\ UNCHANGED <<early_exit, portal, listenSocketFd, ffmpegSocketFd,
                   ffmpegPid, clientList, remaining, timeBeforeTick, openFds,
                   pending, upstream, now, transcoder, exitAt>>
    /\ UNCHANGED histVars
    /\ UNCHANGED auxVars

\* Initialize returned false: run logs the failure, sets exitCode = 1 and
\* goes on to Close
InitializeFailed ==
    /\ initResult' = "false"
    /\ exitCode' = 1
    /\ pc' = "close_clients"

\* propertyToProxy / checkedCast and "if (!_portal) return false;"
InitPortal ==
    /\ pc = "init_portal"
    /\ \E found \in BOOLEAN :
        IF found
            THEN /\ portal' = TRUE
                 /\ pc' = "init_listen"
                 /\ UNCHANGED <<exitCode, initResult>>
            ELSE /\ InitializeFailed
                 /\ UNCHANGED portal
    /\ UNCHANGED <<early_exit, listenSocketFd, ffmpegSocketFd, ffmpegPid,
                   clientList, remaining, timeBeforeTick, openFds, pending,
                   upstream, now, transcoder, exitAt>>
    /\ UNCHANGED histVars
    /\ UNCHANGED <<argc, childVars, closeVars, newStreamFailed, joinedAt>>

\* socket, bind, listen on the listen port
InitListen ==
    /\ pc = "init_listen"
    /\ \E outcome \in {"socket_failed", "bind_failed", "listen_failed", "ok"} :
        IF outcome = "socket_failed"
            THEN /\ listenSocketFd' = -1
                 /\ InitializeFailed
                 /\ UNCHANGED openFds
            ELSE /\ listenSocketFd' = LowestFree(openFds)
                 /\ openFds' = openFds \cup {LowestFree(openFds)}
                 /\ IF outcome = "ok"
                        THEN pc' = "init_fork" /\ UNCHANGED <<exitCode, initResult>>
                        ELSE InitializeFailed
    /\ UNCHANGED <<early_exit, portal, ffmpegSocketFd, ffmpegPid, clientList,
                   remaining, timeBeforeTick, pending, upstream, now,
                   transcoder, exitAt>>
    /\ UNCHANGED histVars
    /\ UNCHANGED <<argc, childVars, closeVars, newStreamFailed, joinedAt>>

\* _ffmpegPid = fork(): the parent's side. The child (pid 0) replaces itself
\* by the transcoder script with execlp.
InitFork ==
    /\ pc = "init_fork"
    /\ \/ ffmpegPid' = 100 /\ transcoder' = "running" /\ childPc' = "transcoder"
       \/ ffmpegPid' = 100 /\ transcoder' = "running" /\ childPc' = "socket"
       \/ ffmpegPid' = -1 /\ UNCHANGED <<transcoder, childPc>>
    /\ pc' = "init_socket"
    /\ UNCHANGED <<early_exit, portal, listenSocketFd, ffmpegSocketFd,
                   clientList, remaining, timeBeforeTick, exitCode, openFds,
                   pending, upstream, now, exitAt>>
    /\ UNCHANGED histVars
    /\ UNCHANGED <<argc, childExit, childNewStream, childCloseStream, closeVars,
                   newStreamFailed, initResult, joinedAt>>

\* _ffmpegSocketFd = socket(AF_INET, SOCK_STREAM, 0)
InitSocket ==
    /\ pc = "init_socket"
    /\ \E ok \in BOOLEAN :
        IF ok
            THEN /\ ffmpegSocketFd' = LowestFree(openFds)
                 /\ openFds' = openFds \cup {LowestFree(openFds)}
            ELSE /\ ffmpegSocketFd' = -1
                 /\ UNCHANGED openFds
    /\ pc' = "conn_check"
    /\ UNCHANGED <<early_exit, portal, listenSocketFd, ffmpegPid, clientList,
                   remaining, timeBeforeTick, exitCode, pending, upstream, now,
                   transcoder, exitAt>>
    /\ UNCHANGED histVars
    /\ UNCHANGED auxVars

\* head of the connect loop: "if (early_exit) return false;"
ConnCheck ==
    /\ pc = "conn_check"
    /\ IF ConnectCancelled(early_exit)
           THEN InitializeFailed
           ELSE pc' = "conn_connect" /\ UNCHANGED <<exitCode, initResult>>
    /\ UNCHANGED <<early_exit, portal, listenSocketFd, ffmpegSocketFd,
                   ffmpegPid, clientList, remaining, timeBeforeTick, openFds,
                   pending, upstream, now, transcoder, exitAt>>
    /\ UNCHANGED histVars
    /\ UNCHANGED <<argc, childVars, closeVars, newStreamFailed, joinedAt>>

\* connect(_ffmpegSocketFd, ...): "if (error >= 0) break;"
ConnConnect ==
    /\ pc = "conn_connect"
    /\ \E ok \in BOOLEAN :
        /\ ok => ffmpegSocketFd \in openFds
        /\ pc' = IF ok THEN "init_newstream" ELSE "conn_sleep"
    /\ UNCHANGED <<early_exit, exitAt, openFds, pending, upstream, now,
                   transcoder>>
    /\ UNCHANGED progVars
    /\ UNCHANGED histVars
    /\ UNCHANGED auxVars

\* usleep(500 ms), then back to the head of the loop
ConnSleep ==
    /\ pc = "conn_sleep"
    /\ pc' = "conn_check"
    /\ UNCHANGED <<early_exit, exitAt, openFds, pending, upstream, now,
                   transcoder>>
    /\ UNCHANGED progVars
    /\ UNCHANGED histVars
    /\ UNCHANGED auxVars

\* _portal->NewStream(_streamEntry); return true; run then calls Run.
\* A failed remote call is an exception: nothing in run catches it, so it
\* leaves run without Close and the process ends with a failure code.
InitNewStream ==
    /\ pc = "init_newstream"
    /\ \E ok \in BOOLEAN :
        IF ok
            THEN /\ newStreamCalls' = newStreamCalls + 1
                 /\ ranLoop' = TRUE
                 /\ initResult' = "true"
                 /\ pc' = "run_accept"
                 /\ UNCHANGED <<exitCode, newStreamFailed>>
            ELSE /\ exitCode' = 1
                 /\ newStreamFailed' = TRUE
                 /\ pc' = "exited"
                 /\ UNCHANGED <<newStreamCalls, ranLoop, initResult>>
    /\ UNCHANGED <<early_exit, portal, listenSocketFd, ffmpegSocketFd,
                   ffmpegPid, clientList, remaining, timeBeforeTick, openFds,
                   pending, upstream, now, transcoder, exitAt>>
    /\ UNCHANGED <<recv, accepted, chunksRead, startedLate, closeStreamCalls,
                   termSignals>>
    /\ UNCHANGED <<argc, childVars, closeVars, joinedAt>>


\* ------------------------------------------------------------------------
\* Streamer::Run
\* ------------------------------------------------------------------------
\* Run returned: run goes on to Close
RunReturned == pc' = "close_clients"

\* head of the outer loop: accept4 on the non-blocking listen socket,
\* push_back, usleep(sleepTime), timeBeforeTick = getMSTime(); the inner loop
\* then starts a chunk with remaining = BUFFER_SIZE. The clock is counted
\* from the start of the cycle (only differences of the clock are read).
RunAccept ==
    /\ pc = "run_accept"
    /\ IF pending > 0
           THEN LET clientSocket == LowestFree(openFds) IN
                /\ pending' = pending - 1
                /\ openFds' = openFds \cup {clientSocket}
                /\ accepted' = accepted \cup {clientSocket}
                /\ recv' = recv @@ (clientSocket :> <<>>)
                /\ joinedAt' = joinedAt @@ (clientSocket :> chunksRead)
                /\ clientList' = IF FdValid(clientSocket)
                                     THEN Append(clientList, clientSocket)
                                     ELSE clientList
           ELSE UNCHANGED <<pending, openFds, accepted, recv, clientList,
                            joinedAt>>
    /\ now' = 0
    /\ timeBeforeTick' = now'
    /\ remaining' = BUFFER_SIZE
    /\ pc' = "read_check"
    /\ UNCHANGED <<early_exit, portal, listenSocketFd, ffmpegSocketFd,
                   ffmpegPid, exitCode, upstream, transcoder, exitAt>>
    /\ UNCHANGED <<chunksRead, ranLoop, startedLate, newStreamCalls,
                   closeStreamCalls, termSignals>>
    /\ UNCHANGED <<argc, childVars, closeVars, newStreamFailed, initResult>>

\* head of the read loop: "if (early_exit) return;"
ReadCheck ==
    /\ pc = "read_check"
    /\ IF ReadCancelled(early_exit) THEN RunReturned ELSE pc' = "read"
    /\ UNCHANGED <<early_exit, exitAt, openFds, pending, upstream, now,
                   transcoder>>
    /\ UNCHANGED progVars
    /\ UNCHANGED histVars
    /\ UNCHANGED auxVars

\* n = read(_ffmpegSocketFd, buffer + offset, remaining);
\* "if (n < 0) return; remaining -= n;" and the test of the loop
ReadUpstream ==
    /\ pc = "read"
    /\ \E n \in ReadOutcomes(remaining) :
        IF ReadFailed(n)
            THEN /\ RunReturned
                 /\ UNCHANGED <<remaining, chunksRead>>
            ELSE /\ remaining' = remaining - n
                 /\ IF ChunkIncomplete(remaining')
                        THEN pc' = "read_check" /\ UNCHANGED chunksRead
                        ELSE pc' = "broadcast" /\ chunksRead' = chunksRead + 1
    \* the upstream of the model stalls once it has delivered MaxChunks chunks
    /\ upstream' = IF chunksRead' >= MaxChunks /\ upstream = "streaming"
                       THEN "stalled" ELSE upstream
    /\ UNCHANGED <<early_exit, portal, listenSocketFd, ffmpegSocketFd,
                   ffmpegPid, clientList, timeBeforeTick, exitCode, openFds,
                   pending, now, transcoder, exitAt>>
    /\ UNCHANGED <<recv, accepted, ranLoop, startedLate, newStreamCalls,
                   closeStreamCalls, termSignals>>
    /\ UNCHANGED auxVars

\* _clientList.remove_if(write(clientSocket, buffer, BUFFER_SIZE) < 0):
\* one pass over the list, one write per client
Broadcast ==
    /\ pc = "broadcast"
    /\ \E res \in [1..Len(clientList) -> WriteResults] :
        /\ clientList' = RemoveIf(clientList, res, 1)
        /\ recv' = Delivered(clientList, res, recv)
    /\ pc' = "tick_check"
    /\ UNCHANGED <<early_exit, portal, listenSocketFd, ffmpegSocketFd,
                   ffmpegPid, remaining, timeBeforeTick, exitCode, openFds,
                   pending, upstream, now, transcoder, exitAt>>
    /\ UNCHANGED <<accepted, chunksRead, ranLoop, startedLate, newStreamCalls,
                   closeStreamCalls, termSignals>>
    /\ UNCHANGED auxVars

\* now = getMSTime(); "if (now - timeBeforeTick > tickTimer) break;"
\* otherwise the inner loop starts the next chunk
TickCheck ==
    /\ pc = "tick_check"
    /\ IF TickPassed(now, timeBeforeTick)
           THEN /\ pc' = "run_accept"
                /\ UNCHANGED <<remaining, startedLate>>
           ELSE /\ pc' = "read_check"
                /\ remaining' = BUFFER_SIZE
                /\ startedLate' = (startedLate \/ now - timeBeforeTick > tickTimer)
    /\ UNCHANGED <<early_exit, portal, listenSocketFd, ffmpegSocketFd,
                   ffmpegPid, clientList, timeBeforeTick, exitCode, openFds,
                   pending, upstream, now, transcoder, exitAt>>
    /\ UNCHANGED <<recv, accepted, chunksRead, ranLoop, newStreamCalls,
                   closeStreamCalls, termSignals>>
    /\ UNCHANGED auxVars

\* ------------------------------------------------------------------------
\* Streamer::Close, then "return exitCode"
\* ------------------------------------------------------------------------
\* "while (!_clientList.empty()) { ... close(clientSocket); }"
CloseClients ==
    /\ pc = "close_clients"
    /\ openFds' = openFds \ Range(clientList)
    /\ clientList' = <<>>
    /\ pc' = "close_listen"
    /\ UNCHANGED <<early_exit, portal, listenSocketFd, ffmpegSocketFd,
                   ffmpegPid, remaining, timeBeforeTick, exitCode, pending,
                   upstream, now, transcoder, exitAt>>
    /\ UNCHANGED histVars
    /\ badCloses' = badCloses + Cardinality(Range(clientList) \ openFds)
    /\ UNCHANGED <<argc, childVars, closeRuns, newStreamFailed, initResult, joinedAt>>

\* "if (_listenSocketFd > 0) { shutdown; close }"
CloseListen ==
    /\ pc = "close_listen"
    /\ openFds' = IF FdValid(listenSocketFd)
                      THEN openFds \ {listenSocketFd} ELSE openFds
    /\ pc' = "close_ffmpeg"
    /\ UNCHANGED <<early_exit, exitAt, pending, upstream, now, transcoder>>
    /\ UNCHANGED progVars
    /\ UNCHANGED histVars
    /\ badCloses' = IF FdValid(listenSocketFd) /\ listenSocketFd \notin openFds
                        THEN badCloses + 1 ELSE badCloses
    /\ UNCHANGED <<argc, childVars, closeRuns, newStreamFailed, initResult, joinedAt>>

\* "if (_ffmpegSocketFd > 0) { shutdown; close }"
CloseFfmpeg ==
    /\ pc = "close_ffmpeg"
    /\ openFds' = IF FdValid(ffmpegSocketFd)
                      THEN openFds \ {ffmpegSocketFd} ELSE openFds
    /\ pc' = "close_portal"
    /\ UNCHANGED <<early_exit, exitAt, pending, upstream, now, transcoder>>
    /\ UNCHANGED progVars
    /\ UNCHANGED histVars
    /\ badCloses' = IF FdValid(ffmpegSocketFd) /\ ffmpegSocketFd \notin openFds
                        THEN badCloses + 1 ELSE badCloses
    /\ UNCHANGED <<argc, childVars, closeRuns, newStreamFailed, initResult, joinedAt>>

\* "if (_portal) _portal->CloseStream(_streamEntry);" A failed remote call is
\* an exception that nothing in Close or run catches.
ClosePortal ==
    /\ pc = "close_portal"
    /\ IF portal
           THEN /\ closeStreamCalls' = closeStreamCalls + 1
                /\ \E ok \in BOOLEAN :
                    IF ok
                        THEN pc' = "close_kill" /\ UNCHANGED exitCode
                        ELSE pc' = "exited" /\ exitCode' = 1
           ELSE /\ pc' = "close_kill"
                /\ UNCHANGED <<closeStreamCalls, exitCode>>
    /\ UNCHANGED <<early_exit, portal, listenSocketFd, ffmpegSocketFd,
                   ffmpegPid, clientList, remaining, timeBeforeTick, openFds,
                   pending, upstream, now, transcoder, exitAt>>
    /\ UNCHANGED <<recv, accepted, chunksRead, ranLoop, startedLate,
                   newStreamCalls, termSignals>>
    /\ UNCHANGED auxVars

\* "if (_ffmpegPid > 0) { kill(_ffmpegPid, SIGTERM); ... }": the signal ends
\* the process with that pid if there still is one
CloseKill ==
    /\ pc = "close_kill"
    /\ IF ffmpegPid > 0
           THEN /\ termSignals' = IF transcoder = "running"
                                      THEN termSignals + 1 ELSE termSignals
                /\ childPc' = IF transcoder = "running" THEN "exited" ELSE childPc
                /\ pc' = "close_wait"
                /\ UNCHANGED closeRuns
           ELSE /\ pc' = "exited"
                /\ closeRuns' = closeRuns + 1
                /\ UNCHANGED <<termSignals, childPc>>
    /\ UNCHANGED <<early_exit, exitAt, openFds, pending, upstream, now,
                   transcoder>>
    /\ UNCHANGED <<argc, childExit, childNewStream, childCloseStream, badCloses,
                   newStreamFailed, initResult, joinedAt>>
    /\ UNCHANGED progVars
    /\ UNCHANGED <<recv, accepted, chunksRead, ranLoop, startedLate,
                   newStreamCalls, closeStreamCalls>>

\* "wait(NULL);" returns when the signalled child has exited; run returns
CloseWait ==
    /\ pc = "close_wait"
    /\ transcoder' = "reaped"
    /\ pc' = "exited"
    /\ UNCHANGED <<early_exit, exitAt, openFds, pending, upstream, now>>
    /\ UNCHANGED progVars
    /\ UNCHANGED histVars
    /\ closeRuns' = closeRuns + 1
    /\ UNCHANGED <<argc, childVars, badCloses, newStreamFailed, initResult,
                   joinedAt>>

\* ------------------------------------------------------------------------
\* Environment
\* ------------------------------------------------------------------------
\* SIGINT: exitHandler sets the flag. A system call the thread is blocked in
\* (the read of the upstream socket, the wait for the child) is restarted or
\* fails with EINTR, as the platform's signal() decides.
exitHandler ==
    /\ pc # "exited"
    /\ early_exit' = TRUE
    /\ exitAt' = IF exitAt = "none" THEN Phase(pc) ELSE exitAt
    /\ \E restart \in BOOLEAN :
        /\ pc' = IF restart THEN pc
                 ELSE IF pc = "read" /\ ReadOutcomes(remaining) = {}
                     THEN "close_clients"
                 ELSE IF pc = "close_wait" THEN "exited"
                 ELSE pc
        /\ closeRuns' = IF ~restart /\ pc = "close_wait"
                            THEN closeRuns + 1 ELSE closeRuns
    /\ UNCHANGED <<openFds, pending, upstream, now, transcoder>>
    /\ UNCHANGED progVars
    /\ UNCHANGED histVars
    /\ UNCHANGED <<argc, childVars, badCloses, newStreamFailed, initResult,
                   joinedAt>>

\* a viewer connects to the listen port
ClientConnect ==
    /\ pc \in RunPcs
    /\ listenSocketFd \in openFds
    /\ pending + Cardinality(accepted) < MaxClients
    /\ pending' = pending + 1
    /\ UNCHANGED <<pc, early_exit, exitAt, openFds, upstream, now, transcoder>>
    /\ UNCHANGED progVars
    /\ UNCHANGED histVars
    /\ UNCHANGED auxVars

\* the transcoder starts or stops producing, closes the connection, or the
\* connection breaks; a closed or broken connection stays so
UpstreamChange ==
    /\ pc \in RunPcs
    /\ upstream \in {"streaming", "stalled"}
    /\ \E m \in UpstreamModes \ {upstream} :
        /\ m = "streaming" => chunksRead < MaxChunks
        /\ upstream' = m
    /\ UNCHANGED <<pc, early_exit, exitAt, openFds, pending, now, transcoder>>
    /\ UNCHANGED progVars
    /\ UNCHANGED histVars
    /\ UNCHANGED auxVars

\* time passes; past the tick budget the clock no longer decides anything
Tick ==
    /\ pc \in InnerPcs
    /\ now - timeBeforeTick <= tickTimer
    /\ now' = now + MsPerTick
    /\ UNCHANGED <<pc, early_exit, exitAt, openFds, pending, upstream,
                   transcoder>>
    /\ UNCHANGED progVars
    /\ UNCHANGED histVars
    /\ UNCHANGED auxVars

\* ------------------------------------------------------------------------
\* The child of fork when execlp fails: execlp returns and the child goes on
\* in Initialize with its own copy of the state (its _ffmpegPid is 0). Its
\* Run is followed only up to its return.
\* ------------------------------------------------------------------------
mainVars == <<pc, early_exit, progVars, openFds, pending, upstream, now,
              transcoder, exitAt, histVars, argc, closeVars, newStreamFailed,
              initResult, joinedAt>>

\* SIGINT reaches the child: its exitHandler sets its flag
ChildExitHandler ==
    /\ childPc \in ChildRelayPcs
    /\ childExit' = TRUE
    /\ UNCHANGED <<childPc, childNewStream, childCloseStream>>
    /\ UNCHANGED mainVars

\* _ffmpegSocketFd = socket(...) in the child
ChildSocket ==
    /\ childPc = "socket"
    /\ childPc' = "conn_check"
    /\ UNCHANGED <<childExit, childNewStream, childCloseStream>>
    /\ UNCHANGED mainVars

\* the connect loop in the child; "return false" leads to Close
ChildConnCheck ==
    /\ childPc = "conn_check"
    /\ childPc' = IF ConnectCancelled(childExit) THEN "close" ELSE "conn_connect"
    /\ UNCHANGED <<childExit, childNewStream, childCloseStream>>
    /\ UNCHANGED mainVars

ChildConnConnect ==
    /\ childPc = "conn_connect"
    /\ \E ok \in BOOLEAN : childPc' = IF ok THEN "newstream" ELSE "conn_sleep"
    /\ UNCHANGED <<childExit, childNewStream, childCloseStream>>
    /\ UNCHANGED mainVars

ChildConnSleep ==
    /\ childPc = "conn_sleep"
    /\ childPc' = "conn_check"
    /\ UNCHANGED <<childExit, childNewStream, childCloseStream>>
    /\ UNCHANGED mainVars

\* _portal->NewStream(_streamEntry) in the child
ChildNewStream ==
    /\ childPc = "newstream"
    /\ \E ok \in BOOLEAN :
        IF ok
            THEN childNewStream' = childNewStream + 1 /\ childPc' = "run"
            ELSE childPc' = "exited" /\ UNCHANGED childNewStream
    /\ UNCHANGED <<childExit, childCloseStream>>
    /\ UNCHANGED mainVars

\* Run in the child returns (its flag is set, or a read fails)
ChildRunReturns ==
    /\ childPc = "run"
    /\ childPc' = "close"
    /\ UNCHANGED <<childExit, childNewStream, childCloseStream>>
    /\ UNCHANGED mainVars

\* Close in the child: _portal is set, so CloseStream is called; _ffmpegPid
\* is 0, so nothing is signalled
ChildClose ==
    /\ childPc = "close"
    /\ childCloseStream' = childCloseStream + 1
    /\ childPc' = "exited"
    /\ UNCHANGED <<childExit, childNewStream>>
    /\ UNCHANGED mainVars

Child ==
    \/ ChildExitHandler \/ ChildSocket \/ ChildConnCheck \/ ChildConnConnect
    \/ ChildConnSleep \/ ChildNewStream \/ ChildRunReturns \/ ChildClose

\* a second execution of Close after the first ran to its end
CloseAgain ==
    /\ pc = "exited"
    /\ closeRuns = 1
    /\ closeStreamCalls <= 1
    /\ pc' = "close_clients"
    /\ UNCHANGED <<early_exit, exitAt, openFds, pending, upstream, now,
                   transcoder>>
    /\ UNCHANGED progVars
    /\ UNCHANGED histVars
    /\ UNCHANGED auxVars

\* ------------------------------------------------------------------------
\* Specifications
\* ------------------------------------------------------------------------
\* the steps of the thread executing Streamer::run
Relay ==
    \/ ParseArgs
    \/ InitPortal \/ InitListen \/ InitFork \/ InitSocket
    \/ ConnCheck \/ ConnConnect \/ ConnSleep \/ InitNewStream
    \/ RunAccept \/ ReadCheck \/ ReadUpstream \/ Broadcast \/ TickCheck
    \/ CloseClients \/ CloseListen \/ CloseFfmpeg \/ ClosePortal
    \/ CloseKill \/ CloseWait

Next ==
    \/ ParseArgs
    \/ InitPortal \/ InitListen \/ InitFork \/ InitSocket
    \/ ConnCheck \/ ConnConnect \/ ConnSleep \/ InitNewStream
    \/ RunAccept \/ ReadCheck \/ ReadUpstream \/ Broadcast \/ TickCheck
    \/ CloseClients \/ CloseListen \/ CloseFfmpeg \/ ClosePortal
    \/ CloseKill \/ CloseWait
    \/ exitHandler \/ ClientConnect \/ UpstreamChange \/ Tick

Spec == Init /\ [][Next]_vars

\* the thread takes its next step whenever it can: a thread that is ready
\* runs, and a blocked system call returns once it can (SF: data that arrived
\* wakes the reader even if the upstream pauses again); and time passes
FairSpec == Init /\ [][Next]_vars /\ SF_vars(Relay) /\ WF_vars(Tick)

\* Spec follows the process that called fork; ForkSpec also follows the child
\* whose execlp failed
NextFork == Next \/ Child

ForkSpec == Init /\ [][NextFork]_vars

\* Close executed a second time
NextTwice == Next \/ CloseAgain

SpecTwice == Init /\ [][NextTwice]_vars


\* ------------------------------------------------------------------------
\* Properties
\* ------------------------------------------------------------------------
Last(s) == s[Len(s)]

\* the piece a complete write of the chunk in the buffer hands to a viewer
FullPiece == [off |-> (chunksRead - 1) * BUFFER_SIZE, len |-> BUFFER_SIZE]

\* the pieces are complete chunks that follow one another in the stream
GapFree(s) ==
    \A i \in 1..Len(s) :
        /\ s[i].len = BUFFER_SIZE
        /\ i > 1 => s[i].off = s[i - 1].off + s[i - 1].len

\* C1: the broadcast step runs only with a completely filled chunk
\* (remaining = 0), and every piece a viewer was written comes from a chunk
\* that was read completely: the bytes of a chunk whose read was abandoned
\* (read error, cancellation) are never written.
ChunkAtomicity ==
    /\ pc = "broadcast" => remaining = 0
    /\ \A fd \in DOMAIN recv : \A i \in 1..Len(recv[fd]) :
           recv[fd][i].off + BUFFER_SIZE <= chunksRead * BUFFER_SIZE

\* the read loop was abandoned in the middle of a chunk after an earlier
\* chunk had been broadcast to a viewer
ChunkAtomicityWitness ==
    /\ pc = "close_clients"
    /\ remaining \in 1..(BUFFER_SIZE - 1)
    /\ \E fd \in DOMAIN recv : Len(recv[fd]) > 0

\* C2: once the upstream socket is closed (read returns 0) or reports an
\* error while the relay is RUNNING, the relay eventually leaves the loop and
\* the process ends, whether or not the cancellation flag is set.
UpstreamFailureTerminates ==
    (pc \in RunPcs /\ upstream \in {"eof", "error"}) ~> (pc = "exited")

\* C3: after a broadcast pass the relay is still RUNNING and the clients kept
\* in the Client Set are exactly those that were written the full chunk.
BroadcastIsolation ==
    [][(pc = "broadcast" /\ pc' # pc) =>
          /\ pc' \in RunPcs
          /\ \A i \in 1..Len(clientList) :
                 (clientList[i] \in Range(clientList'))
                     <=> (recv'[clientList[i]]
                              = Append(recv[clientList[i]], FullPiece))]_vars

\* C4: the accepted client sockets that are still open are exactly the
\* members of the Client Set (a removed client has been closed), so after
\* cleanup none is open.
RemovedClientsClosed ==
    accepted \cap openFds = Range(clientList)

\* C5: every client in the Client Set has received only complete chunks, one
\* after the other: a gap-free run of the upstream stream.
NoTornChunk ==
    \A fd \in Range(clientList) : GapFree(recv[fd])

\* C6: whenever the cancellation flag is set while the relay is RUNNING, the
\* relay eventually completes cleanup and the process ends.
CancellationWhileRunning ==
    (early_exit /\ pc \in RunPcs) ~> (pc = "exited")

\* C7 as stated: if the flag is set during the connect-retry, NewStream is
\* never called and Run is never entered.
CancelInConnectNeverRuns ==
    exitAt \in ConnectPcs => (newStreamCalls = 0 /\ ~ranLoop)

\* C7 amended: once the flag is set no connect attempt is started; if the
\* flag was set before the check or during the backoff, NewStream is never
\* called and Run is never entered; if it was set while an attempt was in
\* progress and that attempt succeeds, Run returns at its first check
\* without reading a chunk.
CancelInConnectRetry ==
    /\ [](exitAt \in {"conn_check", "conn_sleep"}
              => (newStreamCalls = 0 /\ ~ranLoop))
    /\ [](exitAt = "conn_connect"
              => (chunksRead = 0 /\ pc \notin {"read", "broadcast", "tick_check"}))
    /\ [][(early_exit /\ pc # "conn_connect") => pc' # "conn_connect"]_vars

\* the flag was set during the backoff and the process has ended
CancelInConnectRetryWitness ==
    /\ exitAt = "conn_sleep"
    /\ pc = "exited"
    /\ transcoder = "reaped"

\* C8: inside the inner loop the relay always eventually returns to the
\* accept step or leaves RUNNING.
AcceptProgress ==
    (pc \in InnerPcs) ~> (pc \notin InnerPcs)

\* C9: every broadcast is followed by the check of the elapsed time; when
\* the elapsed time exceeds tickTimer the next step is the accept step,
\* otherwise the next chunk; no chunk read begins after the budget was
\* exceeded.
TickBudgetEnforced ==
    /\ [](~startedLate)
    /\ [][(pc = "broadcast" /\ pc' # pc) => pc' = "tick_check"]_vars
    /\ [][(pc = "tick_check" /\ pc' # pc) =>
             IF now - timeBeforeTick > tickTimer
                 THEN pc' = "run_accept"
                 ELSE pc' = "read_check" /\ remaining' = BUFFER_SIZE]_vars

\* the inner loop was left because the budget was exceeded, after more than
\* one chunk
TickBudgetWitness ==
    /\ pc = "run_accept"
    /\ now - timeBeforeTick > tickTimer
    /\ chunksRead >= 2

\* C10: when the transcoder was spawned, the stream was registered and
\* SIGINT arrived while RUNNING, the
\* process ends with CloseStream called once, one termination signal sent to
\* the transcoder and exit code 0.
SigintScenario ==
    (pc = "exited" /\ newStreamCalls = 1 /\ ffmpegPid > 0 /\ exitAt = "run")
        => (closeStreamCalls = 1 /\ termSignals = 1 /\ exitCode = 0)

\* C11: during cleanup CloseStream is called only if NewStream completed
\* successfully earlier in the same run.
DeregisterOnlyAfterRegister ==
    closeStreamCalls > 0 => newStreamCalls > 0

\* C12: when the run has ended after CloseStream was called for a spawned
\* transcoder, the transcoder was sent the termination signal, whether or not
\* the CloseStream call succeeded.
CleanupStepsIndependent ==
    (pc = "exited" /\ closeStreamCalls > 0 /\ ffmpegPid > 0) => termSignals > 0

\* C13: after a failed fork the relay never waits in the connect-retry loop,
\* never registers the stream, never enters RUNNING, and ends with exit code 1.
SpawnFailureFatal ==
    ffmpegPid = -1 =>
        /\ pc \notin ConnectPcs \cup RunPcs
        /\ newStreamCalls = 0
        /\ ~ranLoop
        /\ pc = "exited" => exitCode = 1

\* C14: when the run has ended after the NewStream call failed, the relay
\* loop was never entered, the listen and upstream sockets are closed and the
\* spawned transcoder was signalled and reaped.
NewStreamFailureCleanedUp ==
    (pc = "exited" /\ newStreamFailed) =>
        /\ ~ranLoop
        /\ listenSocketFd \notin openFds
        /\ ffmpegSocketFd \notin openFds
        /\ ffmpegPid > 0 => (termSignals = 1 /\ transcoder = "reaped")

\* C15: a second execution of Close closes no socket that the first already
\* closed.
IdempotentClose ==
    closeRuns = 2 => badCloses = 0

\* C16: when the connect-retry observes the cancellation flag, the step it
\* takes reports no initialization failure and sets no failure exit code.
CancellationNotFailure ==
    [][(pc = "conn_check" /\ early_exit /\ pc' # pc)
           => (initResult' # "false" /\ exitCode' = 0)]_vars

\* a usage error in the words of the contract: fewer than two positional
\* arguments, or an option without its argument (options come in pairs after
\* argv[0], argv[1], argv[2])
UsageError == argc < 3 \/ (argc - 3) % 2 = 1

\* C17: run returns 1 exactly on a usage error or when Initialize reports
\* failure, returns 0 in every run that entered the relay loop, and executes
\* Close exactly once in every run that got past argument parsing.
ExitCodes ==
    pc = "exited" =>
        /\ exitCode = 1 <=> (UsageError \/ initResult = "false")
        /\ ranLoop => exitCode = 0
        /\ ~UsageError => closeRuns = 1

\* C18: the relay loop is entered only after listen setup, spawn, upstream
\* connect and one NewStream call; NewStream is called at most once; at
\* shutdown the client sockets, the listen socket and the upstream socket are
\* closed before CloseStream is called, and CloseStream is called before the
\* transcoder is signalled and reaped.
LifecycleOrdering ==
    /\ newStreamCalls <= 1
    /\ ranLoop =>
        /\ FdValid(listenSocketFd)
        /\ ffmpegPid > 0
        /\ FdValid(ffmpegSocketFd)
        /\ newStreamCalls = 1
    /\ pc \in RunPcs => ranLoop
    /\ closeStreamCalls > 0 =>
        /\ clientList = <<>>
        /\ listenSocketFd \notin openFds
        /\ ffmpegSocketFd \notin openFds
    /\ (termSignals > 0 /\ portal) => closeStreamCalls > 0
    /\ transcoder = "reaped" => termSignals > 0

\* C19: inside Run the client list changes only by the accept step, which
\* appends at most one socket, and by the prune of a broadcast pass; it does
\* not change between the start of a chunk's read and its broadcast; a
\* broadcast pass hands the chunk just read to exactly the clients it keeps;
\* the first piece a viewer receives is of the first chunk read after its
\* accept.
AcceptBroadcastStep ==
    (pc \in RunPcs /\ pc' \in RunPcs) =>
        /\ clientList' # clientList => pc \in {"run_accept", "broadcast"}
        /\ pc = "run_accept" =>
               \/ clientList' = clientList
               \/ \E fd \in accepted' \ accepted :
                      clientList' = Append(clientList, fd)
        /\ pc \in {"read_check", "read"} => clientList' = clientList
        /\ (pc = "broadcast" /\ pc' # pc) =>
               /\ Range(clientList') \subseteq Range(clientList)
               /\ \A fd \in Range(clientList') :
                      /\ Len(recv'[fd]) = Len(recv[fd]) + 1
                      /\ SubSeq(recv'[fd], 1, Len(recv[fd])) = recv[fd]
                      /\ Last(recv'[fd]).off = (chunksRead - 1) * BUFFER_SIZE
               /\ \A fd \in DOMAIN recv \ Range(clientList') :
                      recv'[fd] = recv[fd]

FirstPieceAfterAccept ==
    \A fd \in DOMAIN recv :
        \A k \in 1..Len(recv[fd]) :
            /\ recv[fd][k].off >= joinedAt[fd] * BUFFER_SIZE
            /\ k = 1 => recv[fd][k].off = joinedAt[fd] * BUFFER_SIZE

AcceptBroadcastOrdering ==
    [][AcceptBroadcastStep]_vars /\ []FirstPieceAfterAccept

\* C19, its case: a viewer accepted after the first chunk was read has
\* received a piece, next to a viewer that was there from the first chunk
AcceptBroadcastWitness ==
    \E fd \in DOMAIN recv, g \in DOMAIN recv :
        /\ joinedAt[fd] >= 1
        /\ Len(recv[fd]) >= 1
        /\ joinedAt[g] = 0
        /\ Len(recv[g]) >= 2

\* C20: the child created by fork never reaches the connect-retry, never
\* calls NewStream or CloseStream and never runs Close.
OnlyParentRelays ==
    /\ childPc \notin ChildRelayPcs \ {"socket"}
    /\ childNewStream = 0
    /\ childCloseStream = 0

====
